---------------------------- MODULE Spec2Model ----------------------------
(***************************************************************************)
(* A model of the PII masking pipeline of src/dataflow_pii_masking.py:     *)
(* the Masking Stage (MaskPIIFn), the Format Stage (FormatForBigQuery),    *)
(* the Write-Result Handler (HandleBigQueryErrors) and the wiring of       *)
(* run(), with the Python values and the json / str conversions they use.  *)
(*                                                                         *)
(* Python values are pairs <<type, payload>>.  A Python str (and the       *)
(* content of a bytes object) is a sequence of symbols: a symbol is one    *)
(* character, except that a run of letters the program treats as a unit    *)
(* (a field name, a JSON literal, a message) is one symbol.  A dict is the *)
(* sequence of its <<key, value>> items in insertion order, keys being     *)
(* str symbol sequences.                                                   *)
(***************************************************************************)
EXTENDS Integers, Sequences, FiniteSets, TLC

(***************************************************************************)
(* Bounds of the model.                                                    *)
(***************************************************************************)
\* longest raw byte string / JSON-field string enumerated symbol by symbol
MaxLen == 2
\* nesting depth of the enumerated dict values
MaxDepth == 1

(***************************************************************************)
(* Python values.                                                          *)
(***************************************************************************)
PyNone == <<"NoneType", 0>>
PyBool(b) == <<"bool", b>>
PyInt(n) == <<"int", n>>
PyStr(s) == <<"str", s>>
PyBytes(s) == <<"bytes", s>>
PyList(l) == <<"list", l>>
PyTuple(l) == <<"tuple", l>>
PyDict(d) == <<"dict", d>>
\* an object json cannot serialize (a datetime, a Decimal, a set), by name
PyObject(name) == <<"object", name>>
\* a named tuple: the sequence of its <<attribute, value>> items
PyNamed(attrs) == <<"namedtuple", attrs>>

TypeOf(v) == v[1]
isinstance(v, types) == TypeOf(v) \in types

\* a one-symbol str, as used for field names and messages
S(a) == <<a>>

\* bool(v): the truth value Python gives v
Truthy(v) ==
    CASE TypeOf(v) = "NoneType" -> FALSE
      [] TypeOf(v) = "bool" -> v[2]
      [] TypeOf(v) = "int" -> v[2] # 0
      [] TypeOf(v) \in {"str", "bytes", "list", "tuple", "dict"} -> Len(v[2]) > 0
      [] OTHER -> TRUE

\* results of an operation that may raise
Ok(v) == <<"ok", v>>
Raise(msg) == <<"raise", msg>>
IsOk(r) == r[1] = "ok"

(***************************************************************************)
(* dict operations on an item sequence.                                    *)
(***************************************************************************)
HasKey(items, k) == \E i \in 1..Len(items) : items[i][1] = k
KeyIndex(items, k) == CHOOSE i \in 1..Len(items) : items[i][1] = k
GetItem(items, k) == items[KeyIndex(items, k)][2]
\* d[k] = v: replaces the value in place, or appends a new item
SetItem(items, k, v) ==
    IF HasKey(items, k)
    THEN [items EXCEPT ![KeyIndex(items, k)] = <<k, v>>]
    ELSE Append(items, <<k, v>>)
\* dict.get(k): None when absent
DictGet(items, k) == IF HasKey(items, k) THEN GetItem(items, k) ELSE PyNone
Keys(items) == {items[i][1] : i \in 1..Len(items)}

(***************************************************************************)
(* Text helpers.                                                           *)
(***************************************************************************)
DigitSyms == <<"0", "1", "2", "3", "4", "5", "6", "7", "8", "9">>
IsDigit(c) == \E d \in 1..10 : DigitSyms[d] = c
DigitVal(c) == (CHOOSE d \in 1..10 : DigitSyms[d] = c) - 1

RECURSIVE Digits(_)
Digits(n) == IF n < 10 THEN <<DigitSyms[n + 1]>>
             ELSE Digits(n \div 10) \o <<DigitSyms[(n % 10) + 1]>>

\* the concatenation of a sequence of sequences, by halves
RECURSIVE Concat(_)
Concat(parts) ==
    IF Len(parts) = 0 THEN <<>>
    ELSE IF Len(parts) = 1 THEN parts[1]
    ELSE Concat(SubSeq(parts, 1, Len(parts) \div 2))
         \o Concat(SubSeq(parts, (Len(parts) \div 2) + 1, Len(parts)))

\* sep.join(parts)
Join(parts, sep) ==
    IF Len(parts) = 0 THEN <<>>
    ELSE Concat([i \in 1..(2 * Len(parts) - 1) |->
                    IF i % 2 = 1 THEN parts[(i + 1) \div 2] ELSE sep])

Min(set) == CHOOSE x \in set : \A y \in set : x <= y

Contains(s, c) == \E i \in 1..Len(s) : s[i] = c


(***************************************************************************)
(* json.dumps with the default separators (", " and ": ").                 *)
(***************************************************************************)
\* the body of a JSON string literal: '"' and '\' are escaped with '\'
JsonEscape(s) ==
    Concat([i \in 1..Len(s) |->
               IF s[i] \in {"\"", "\\"} THEN <<"\\", s[i]>> ELSE <<s[i]>>])

JsonQuote(s) == <<"\"">> \o JsonEscape(s) \o <<"\"">>

\* whether json.dumps accepts v (it raises TypeError on bytes and on objects)
RECURSIVE JsonSerializable(_)
JsonSerializable(v) ==
    CASE TypeOf(v) \in {"NoneType", "bool", "int", "str"} -> TRUE
      [] TypeOf(v) \in {"list", "tuple"} ->
            \A i \in 1..Len(v[2]) : JsonSerializable(v[2][i])
      [] TypeOf(v) = "dict" ->
            \A i \in 1..Len(v[2]) : JsonSerializable(v[2][i][2])
      [] TypeOf(v) = "namedtuple" ->
            \A i \in 1..Len(v[2]) : JsonSerializable(v[2][i][2])
      [] OTHER -> FALSE

RECURSIVE JsonText(_)
JsonText(v) ==
    CASE TypeOf(v) = "NoneType" -> <<"null">>
      [] TypeOf(v) = "bool" -> IF v[2] THEN <<"true">> ELSE <<"false">>
      [] TypeOf(v) = "int" -> Digits(v[2])
      [] TypeOf(v) = "str" -> JsonQuote(v[2])
      [] TypeOf(v) \in {"list", "tuple"} ->
            <<"[">> \o Join([i \in 1..Len(v[2]) |-> JsonText(v[2][i])], <<",", " ">>)
                    \o <<"]">>
      [] TypeOf(v) = "namedtuple" ->
            <<"[">> \o Join([i \in 1..Len(v[2]) |-> JsonText(v[2][i][2])], <<",", " ">>)
                    \o <<"]">>
      [] TypeOf(v) = "dict" ->
            <<"{">> \o Join([i \in 1..Len(v[2]) |->
                                JsonQuote(v[2][i][1]) \o <<":", " ">> \o JsonText(v[2][i][2])],
                            <<",", " ">>)
                    \o <<"}">>

\* json.dumps(v): the text, or the TypeError
json_dumps(v) ==
    IF JsonSerializable(v) THEN Ok(JsonText(v))
    ELSE Raise(<<"Object of type ", "is not JSON serializable">>)

(***************************************************************************)
(* json.loads: a recursive-descent parser.  A parse result is              *)
(* <<TRUE, value, next position>> or <<FALSE, message, position>>.         *)
(***************************************************************************)
RECURSIVE SkipWs(_, _)
SkipWs(s, i) == IF i <= Len(s) /\ s[i] = " " THEN SkipWs(s, i + 1) ELSE i

\* In a string literal whose body starts at i, the backslash at k starts an
\* escape when it ends an odd run of backslashes
StartsEscape(s, i, k) ==
    /\ s[k] = "\\"
    /\ (CHOOSE m \in 1..(k - i + 1) :
           /\ \A t \in (k - m + 1)..k : s[t] = "\\"
           /\ (k - m < i \/ s[k - m] # "\\")) % 2 = 1

\* the quotes from i on that no backslash escapes
ClosingQuotes(s, i) ==
    {j \in i..Len(s) : s[j] = "\"" /\ ~(j > i /\ StartsEscape(s, i, j - 1))}

\* the backslashes in i..stop-1 followed by a character they cannot escape
InvalidEscapes(s, i, stop) ==
    {k \in i..(stop - 1) :
        StartsEscape(s, i, k) /\ k < Len(s) /\ s[k + 1] \notin {"\"", "\\", "/"}}

\* the characters at the given positions of s
CharsAt(s, positions) == [n \in 1..Len(positions) |-> s[positions[n]]]

\* the body i..stop-1 of a string literal without the backslashes that escape
StringBody(s, i, stop) ==
    LET Kept(k) == ~StartsEscape(s, i, k) IN
    CharsAt(s, SelectSeq([n \in 1..(stop - i) |-> i + n - 1], Kept))

ScanString(s, i, closing, bad) ==
    IF bad # {} THEN <<FALSE, S("Invalid \\escape"), Min(bad)>>
    ELSE IF closing = {} THEN <<FALSE, S("Unterminated string starting at"), i>>
    ELSE <<TRUE, StringBody(s, i, Min(closing)), Min(closing) + 1>>

\* the characters of a string literal, i being just after its opening quote:
\* the scan stops at the first quote no backslash escapes, and a backslash
\* before it must be followed by a character it can escape
ParseString(s, i) ==
    ScanString(s, i, ClosingQuotes(s, i),
               InvalidEscapes(s, i, IF ClosingQuotes(s, i) = {} THEN Len(s) + 1
                                    ELSE Min(ClosingQuotes(s, i))))

\* the digits after the first one of an integer
RECURSIVE ParseDigits(_, _, _)
ParseDigits(s, i, n) ==
    IF i <= Len(s) /\ IsDigit(s[i])
    THEN ParseDigits(s, i + 1, 10 * n + DigitVal(s[i]))
    ELSE <<TRUE, PyInt(n), i>>

RECURSIVE ParseValue(_, _)
RECURSIVE ParseMembers(_, _, _)
RECURSIVE ParseElements(_, _, _)

\* after a member's value: the object ends, or another member follows
MemberEnd(s, items, e) ==
    IF e <= Len(s) /\ s[e] = "}" THEN <<TRUE, PyDict(items), e + 1>>
    ELSE IF e <= Len(s) /\ s[e] = "," THEN ParseMembers(s, SkipWs(s, e + 1), items)
    ELSE <<FALSE, S("Expecting ',' delimiter"), e>>

MemberValue(s, items, key, v) ==
    IF ~v[1] THEN v ELSE MemberEnd(s, SetItem(items, key, v[2]), SkipWs(s, v[3]))

MemberColon(s, items, key, c) ==
    IF c > Len(s) \/ s[c] # ":" THEN <<FALSE, S("Expecting ':' delimiter"), c>>
    ELSE MemberValue(s, items, key, ParseValue(s, SkipWs(s, c + 1)))

MemberKey(s, items, k) ==
    IF ~k[1] THEN k ELSE MemberColon(s, items, k[2], SkipWs(s, k[3]))

\* the members of an object from position i, where a key must start
ParseMembers(s, i, items) ==
    IF i > Len(s) \/ s[i] # "\""
    THEN <<FALSE, S("Expecting property name enclosed in double quotes"), i>>
    ELSE MemberKey(s, items, ParseString(s, i + 1))

\* after an element: the array ends, or another element follows
ElementEnd(s, elems, e) ==
    IF e <= Len(s) /\ s[e] = "]" THEN <<TRUE, PyList(elems), e + 1>>
    ELSE IF e <= Len(s) /\ s[e] = "," THEN ParseElements(s, SkipWs(s, e + 1), elems)
    ELSE <<FALSE, S("Expecting ',' delimiter"), e>>

ElementValue(s, elems, v) ==
    IF ~v[1] THEN v ELSE ElementEnd(s, Append(elems, v[2]), SkipWs(s, v[3]))

\* the elements of an array from position i, where a value must start
ParseElements(s, i, elems) == ElementValue(s, elems, ParseValue(s, i))

StringValue(r) == IF r[1] THEN <<TRUE, PyStr(r[2]), r[3]>> ELSE r

\* an object whose first non-blank position after the brace is j
ObjectFrom(s, j) ==
    IF j <= Len(s) /\ s[j] = "}" THEN <<TRUE, PyDict(<<>>), j + 1>>
    ELSE ParseMembers(s, j, <<>>)

\* an array whose first non-blank position after the bracket is j
ArrayFrom(s, j) ==
    IF j <= Len(s) /\ s[j] = "]" THEN <<TRUE, PyList(<<>>), j + 1>>
    ELSE ParseElements(s, j, <<>>)

ParseValue(s, i) ==
    IF i > Len(s) THEN <<FALSE, S("Expecting value"), i>>
    ELSE CASE s[i] = "\"" -> StringValue(ParseString(s, i + 1))
           [] s[i] = "{" -> ObjectFrom(s, SkipWs(s, i + 1))
           [] s[i] = "[" -> ArrayFrom(s, SkipWs(s, i + 1))
           [] s[i] = "null" -> <<TRUE, PyNone, i + 1>>
           [] s[i] = "true" -> <<TRUE, PyBool(TRUE), i + 1>>
           [] s[i] = "false" -> <<TRUE, PyBool(FALSE), i + 1>>
           [] s[i] = "0" -> <<TRUE, PyInt(0), i + 1>>
           [] IsDigit(s[i]) /\ s[i] # "0" -> ParseDigits(s, i + 1, DigitVal(s[i]))
           [] OTHER -> <<FALSE, S("Expecting value"), i>>

\* the whole text must be one value, blanks aside
LoadsResult(s, v) ==
    IF ~v[1] THEN Raise(v[2])
    ELSE IF SkipWs(s, v[3]) # Len(s) + 1 THEN Raise(S("Extra data"))
    ELSE Ok(v[2])

\* json.loads(s) of a str s: the value, or the JSONDecodeError
json_loads(s) == LoadsResult(s, ParseValue(s, SkipWs(s, 1)))

(***************************************************************************)
(* bytes.decode("utf-8") and str.encode("utf-8").  BadByte is a byte that  *)
(* starts no UTF-8 sequence (0xFF); every other symbol is its own          *)
(* encoding.                                                               *)
(***************************************************************************)
BadByte == "\\xff"

decode_utf8(b) ==
    IF Contains(b, BadByte)
    THEN Raise(S("'utf-8' codec can't decode byte 0xff: invalid start byte"))
    ELSE Ok(b)

encode_utf8(s) == PyBytes(s)

(***************************************************************************)
(* str(v) and repr(v).                                                     *)
(***************************************************************************)
\* repr of a str: quoted with ' unless it holds a ' and no "
ReprQuote(s) == IF Contains(s, "'") /\ ~Contains(s, "\"") THEN "\"" ELSE "'"

ReprEscape(s, q) ==
    Concat([i \in 1..Len(s) |->
               IF s[i] = "\\" \/ (s[i] = q /\ q = "'") THEN <<"\\", s[i]>> ELSE <<s[i]>>])

RECURSIVE repr(_)
repr(v) ==
    CASE TypeOf(v) = "NoneType" -> <<"None">>
      [] TypeOf(v) = "bool" -> IF v[2] THEN <<"True">> ELSE <<"False">>
      [] TypeOf(v) = "int" -> Digits(v[2])
      [] TypeOf(v) = "str" ->
            <<ReprQuote(v[2])>> \o ReprEscape(v[2], ReprQuote(v[2])) \o <<ReprQuote(v[2])>>
      [] TypeOf(v) = "bytes" -> <<"b", "'">> \o ReprEscape(v[2], "'") \o <<"'">>
      [] TypeOf(v) = "list" ->
            <<"[">> \o Join([i \in 1..Len(v[2]) |-> repr(v[2][i])], <<",", " ">>) \o <<"]">>
      [] TypeOf(v) = "tuple" ->
            <<"(">> \o Join([i \in 1..Len(v[2]) |-> repr(v[2][i])], <<",", " ">>)
                    \o (IF Len(v[2]) = 1 THEN <<",">> ELSE <<>>) \o <<")">>
      [] TypeOf(v) = "dict" ->
            <<"{">> \o Join([i \in 1..Len(v[2]) |->
                                repr(PyStr(v[2][i][1])) \o <<":", " ">> \o repr(v[2][i][2])],
                            <<",", " ">>)
                    \o <<"}">>
      [] TypeOf(v) = "namedtuple" ->
            <<"FailedRow", "(">>
              \o Join([i \in 1..Len(v[2]) |-> v[2][i][1] \o <<"=">> \o repr(v[2][i][2])],
                      <<",", " ">>)
              \o <<")">>
      [] OTHER -> <<"<", v[2], ">">>

str(v) == IF TypeOf(v) = "str" THEN v[2] ELSE repr(v)

(***************************************************************************)
(* Subscripting and membership as Python defines them per type.            *)
(***************************************************************************)
\* whether needle occurs in s as a contiguous run (str.__contains__)
IsSubstring(needle, s) ==
    \E i \in 0..(Len(s) - Len(needle)) :
        \A j \in 1..Len(needle) : s[i + j] = needle[j]

\* k in obj, k being a str
py_in(k, obj) ==
    CASE TypeOf(obj) = "dict" -> Ok(HasKey(obj[2], k))
      [] TypeOf(obj) \in {"list", "tuple"} ->
            Ok(\E i \in 1..Len(obj[2]) : obj[2][i] = PyStr(k))
      [] TypeOf(obj) = "str" -> Ok(IsSubstring(k, obj[2]))
      [] OTHER -> Raise(<<"argument of type '", TypeOf(obj), "' is not iterable">>)

\* obj[k], k being a str
py_getitem(obj, k) ==
    CASE TypeOf(obj) = "dict" ->
            IF HasKey(obj[2], k) THEN Ok(GetItem(obj[2], k)) ELSE Raise(repr(PyStr(k)))
      [] TypeOf(obj) \in {"list", "tuple", "str"} ->
            Raise(<<TypeOf(obj), " indices must be integers">>)
      [] OTHER -> Raise(<<"'", TypeOf(obj), "' object is not subscriptable">>)

\* obj[k] = v, k being a str: the object after the assignment
py_setitem(obj, k, v) ==
    IF TypeOf(obj) = "dict" THEN Ok(PyDict(SetItem(obj[2], k, v)))
    ELSE IF TypeOf(obj) = "list" THEN Raise(S("list indices must be integers or slices, not str"))
    ELSE Raise(<<"'", TypeOf(obj), "' object does not support item assignment">>)

\* datetime.now(timezone.utc).isoformat(): the wall clock's reading
utc_now_isoformat == S("2024-01-01T00:00:00+00:00")

(***************************************************************************)
(* MaskPIIFn                                                               *)
(***************************************************************************)
FIELDS_TO_MASK == <<S("userIamPrincipal")>>

\* what the masking service does with one call (the service is external):
\* it masks every character, masks the detected tail, finds nothing, or fails
DlpOutcomes == {"masked", "partly_masked", "no_findings", "unavailable", "quota"}

\* dlp_client.deidentify_content(...).item.value for text under an outcome
deidentify_content(text, outcome) ==
    CASE outcome = "masked" -> Ok(PyStr([i \in 1..Len(text[2]) |-> "*"]))
      [] outcome = "partly_masked" ->
            Ok(PyStr([i \in 1..Len(text[2]) |-> IF i = Len(text[2]) THEN "*" ELSE text[2][i]]))
      [] outcome = "no_findings" -> Ok(text)
      [] outcome = "unavailable" -> Raise(S("503 The service is currently unavailable"))
      [] OTHER -> Raise(S("429 Quota exceeded"))

\* what _mask_text returns once the service has answered r, and the call made
MaskTextCall_ReturnsInput(client, text, r) ==
    <<IF IsOk(r) THEN Ok(text) ELSE r, <<<<client, text, r>>>>>>

MaskTextCall(client, text, r) == <<r, <<<<client, text, r>>>>>>

\* _mask_text(text): <<result, calls made>>; a call is <<client, text, result>>
MaskText(client, text, outcome) ==
    IF ~Truthy(text) \/ ~isinstance(text, {"str"}) THEN <<Ok(text), <<>>>>
    ELSE IF client = "None"
    THEN <<Raise(S("'NoneType' object has no attribute 'deidentify_content'")), <<>>>>
    ELSE MaskTextCall(client, text, deidentify_content(text, outcome))

\* One turn of the loop over FIELDS_TO_MASK, step by step.  Each yields
\* <<"ok", record, calls>> or <<"raise", message, calls>>.
MaskAssigned(set, calls) ==
    IF IsOk(set) THEN <<"ok", set[2], calls>> ELSE <<"raise", set[2], calls>>

\* record[field] = m, m being what _mask_text gave
MaskAssign(record, field, m) ==
    IF ~IsOk(m[1]) THEN <<"raise", m[1][2], m[2]>>
    ELSE MaskAssigned(py_setitem(record, field, m[1][2]), m[2])

\* ... and record[field]: value is what record[field] gave
MaskValue(record, field, client, outcome, value) ==
    IF ~IsOk(value) THEN <<"raise", value[2], <<>>>>
    ELSE IF ~Truthy(value[2]) THEN <<"ok", record, <<>>>>
    ELSE MaskAssign(record, field, MaskText(client, value[2], outcome))

\* if field in record ...: present is what the membership test gave
MaskPresent(record, field, client, outcome, present) ==
    IF ~IsOk(present) THEN <<"raise", present[2], <<>>>>
    ELSE IF ~present[2] THEN <<"ok", record, <<>>>>
    ELSE MaskValue(record, field, client, outcome, py_getitem(record, field))

MaskField(record, field, client, outcome) ==
    MaskPresent(record, field, client, outcome, py_in(field, record))

\* the loop over FIELDS_TO_MASK from field i on:
\* <<"ok", record, calls>> or <<"raise", message, calls, record when raised>>
RECURSIVE MaskFields(_, _, _, _, _)
MaskFieldsNext(record, i, client, outcomes, calls, one) ==
    IF one[1] = "raise" THEN <<"raise", one[2], calls \o one[3], record>>
    ELSE MaskFields(one[2], i + 1, client, outcomes, calls \o one[3])

MaskFields(record, i, client, outcomes, calls) ==
    IF i > Len(FIELDS_TO_MASK) THEN <<"ok", record, calls>>
    ELSE MaskFieldsNext(record, i, client, outcomes, calls,
                        MaskField(record, FIELDS_TO_MASK[i], client, outcomes[i]))

\* json.loads(element.decode("utf-8")), text being what decode gave
LoadDecoded(text) == IF IsOk(text) THEN json_loads(text[2]) ELSE text

\* record["_masked_at"] = ...; record["_masking_status"] = "SUCCESS"
\* m is what the loop gave, at what the first assignment gave; obj is the
\* object the except branch would see as element
MaskStamped(obj, m, at) ==
    IF ~IsOk(at) THEN <<"raise", at[2], m[3], obj>>
    ELSE <<"ok", py_setitem(at[2], S("_masking_status"), PyStr(S("SUCCESS")))[2], m[3]>>

MaskStamp(element, m) ==
    IF m[1] = "raise"
    THEN <<"raise", m[2], m[3], IF isinstance(element, {"bytes"}) THEN element ELSE m[4]>>
    ELSE MaskStamped(IF isinstance(element, {"bytes"}) THEN element ELSE m[2], m,
                     py_setitem(m[2], S("_masked_at"), PyStr(utc_now_isoformat)))

MaskRecord(element, record, client, outcomes) ==
    IF ~IsOk(record) THEN <<"raise", record[2], <<>>, element>>
    ELSE MaskStamp(element, MaskFields(record[2], 1, client, outcomes, <<>>))

\* the try block of process: decode, mask, stamp.
\* <<"ok", record, calls>> or <<"raise", message, calls, element as it is then>>
MaskTry(element, client, outcomes) ==
    MaskRecord(element,
               IF isinstance(element, {"bytes"}) THEN LoadDecoded(decode_utf8(element[2]))
               ELSE Ok(element),
               client, outcomes)

\* the except branch: t is what the try block raised, original what
\* computing original_data gave
MaskExcept(t, original) ==
    IF ~IsOk(original)
    THEN [masked |-> <<>>, dead_letter |-> <<>>, calls |-> t[3],
          caught |-> <<t[2]>>, raised |-> <<original[2]>>]
    ELSE [masked |-> <<>>,
          dead_letter |-> <<PyDict(<<
              <<S("original_data"), PyStr(original[2])>>,
              <<S("error_message"), PyStr(t[2])>>,
              <<S("error_type"), PyStr(S("MASKING_ERROR"))>>,
              <<S("error_timestamp"), PyStr(utc_now_isoformat)>> >>)>>,
          calls |-> t[3], caught |-> <<t[2]>>, raised |-> <<>>]

MaskOutcome(t) ==
    IF t[1] = "ok"
    THEN [masked |-> <<t[2]>>, dead_letter |-> <<>>, calls |-> t[3],
          caught |-> <<>>, raised |-> <<>>]
    ELSE MaskExcept(t, IF isinstance(t[4], {"bytes"}) THEN decode_utf8(t[4][2])
                       ELSE Ok(str(t[4])))

\* MaskPIIFn.process(element): what it yields on each tag, the DLP calls it
\* made, the exception its handler caught, and the exception that left it
MaskPIIFn_process(element, client, outcomes) == MaskOutcome(MaskTry(element, client, outcomes))

(***************************************************************************)
(* FormatForBigQuery                                                       *)
(***************************************************************************)
JSON_FIELDS == <<S("request"), S("response")>>

expected_fields_NoServiceLabel ==
    <<S("request"), S("response"), S("userIamPrincipal"), S("timestamp"),
      S("userQuery"), S("serviceTextReply"),
      S("methodName"), S("serviceAttributionToken"), S("serviceName"),
      S("_masked_at"), S("_masking_status")>>

expected_fields ==
    <<S("request"), S("response"), S("userIamPrincipal"), S("timestamp"),
      S("userQuery"), S("serviceTextReply"), S("serviceLabel"),
      S("methodName"), S("serviceAttributionToken"), S("serviceName"),
      S("_masked_at"), S("_masking_status")>>

\* the names of table_schema["fields"], the schema the sink is given
table_schema ==
    <<S("request"), S("response"), S("userIamPrincipal"), S("timestamp"),
      S("userQuery"), S("serviceTextReply"), S("serviceLabel"),
      S("methodName"), S("serviceAttributionToken"), S("serviceName"),
      S("_masked_at"), S("_masking_status")>>

\* the first loop: every expected field absent from the dict is set to None
RECURSIVE FillExpected(_, _)
FillExpected(items, i) ==
    IF i > Len(expected_fields) THEN items
    ELSE FillExpected(IF HasKey(items, expected_fields[i]) THEN items
                      ELSE SetItem(items, expected_fields[i], PyNone), i + 1)

\* element[field] = json.dumps(value), d being what json.dumps gave
DumpedField(d) == IF IsOk(d) THEN Ok(PyStr(d[2])) ELSE d

\* what the second loop leaves in a JSON field holding value
FormatJsonField_KeepsInvalid(value) ==
    IF value = PyNone THEN Ok(value)
    ELSE IF isinstance(value, {"dict"}) THEN DumpedField(json_dumps(value))
    ELSE Ok(value)

FormatJsonField(value) ==
    IF value = PyNone THEN Ok(value)
    ELSE IF isinstance(value, {"dict"}) THEN DumpedField(json_dumps(value))
    ELSE IF isinstance(value, {"str"}) THEN
         IF IsOk(json_loads(value[2])) THEN Ok(value)
         ELSE DumpedField(json_dumps(PyDict(<< <<S("raw_value"), value>> >>)))
    ELSE Ok(value)

RECURSIVE FormatJsonFields(_, _)
FormatJsonFieldsNext(items, i, f) ==
    IF ~IsOk(f) THEN f ELSE FormatJsonFields(SetItem(items, JSON_FIELDS[i], f[2]), i + 1)

\* the second loop from field i on; every JSON field is a key by then
FormatJsonFields(items, i) ==
    IF i > Len(JSON_FIELDS) THEN Ok(PyDict(items))
    ELSE FormatJsonFieldsNext(items, i, FormatJsonField(DictGet(items, JSON_FIELDS[i])))

\* FormatForBigQuery.process(element), element a dict: the record it yields,
\* or the exception that leaves it
FormatForBigQuery_process(element) == FormatJsonFields(FillExpected(element[2], 1), 1)

(***************************************************************************)
(* HandleBigQueryErrors                                                    *)
(***************************************************************************)
hasattr(element, name) == TypeOf(element) = "namedtuple" /\ HasKey(element[2], name)

\* element[i] of a list or tuple, counting from 1
SeqItem(element, i) ==
    IF TypeOf(element) = "namedtuple" THEN element[2][i][2] ELSE element[2][i]

\* <<row, errors>> as the shape of element gives them
RowAndErrors(element) ==
    IF hasattr(element, S("row"))
    THEN <<GetItem(element[2], S("row")),
           IF hasattr(element, S("errors")) THEN GetItem(element[2], S("errors"))
           ELSE PyStr(str(element))>>
    ELSE IF isinstance(element, {"list", "tuple", "namedtuple"}) /\ Len(element[2]) >= 2
    THEN IF Len(element[2]) = 3 THEN <<SeqItem(element, 2), SeqItem(element, 3)>>
         ELSE <<SeqItem(element, 1), SeqItem(element, 2)>>
    ELSE <<element, PyStr(S("Unknown error format"))>>

ErrorRecord(original_data, error_message, error_type) ==
    PyDict(<< <<S("original_data"), PyStr(original_data)>>,
              <<S("error_message"), PyStr(error_message)>>,
              <<S("error_type"), PyStr(error_type)>>,
              <<S("error_timestamp"), PyStr(utc_now_isoformat)>> >>)

\* yield json.dumps(error_record).encode("utf-8")
YieldErrorRecord(error_record) == <<encode_utf8(json_dumps(error_record)[2])>>

\* the except branch of process
HandleFallback(element, e) ==
    YieldErrorRecord(ErrorRecord(str(element), <<"Error processing failed row: ">> \o e,
                                 S("BIGQUERY_WRITE_ERROR")))

\* the try block once row and errors are known, original being what
\* computing original_data gave
HandleRow_NoFallback(element, errors, original) ==
    IF ~IsOk(original) THEN <<>>
    ELSE YieldErrorRecord(ErrorRecord(original[2], str(errors), S("BIGQUERY_WRITE_ERROR")))

HandleRow(element, errors, original) ==
    IF ~IsOk(original) THEN HandleFallback(element, original[2])
    ELSE YieldErrorRecord(ErrorRecord(original[2], str(errors), S("BIGQUERY_WRITE_ERROR")))

HandleShape(element, re) ==
    HandleRow(element, re[2],
              IF isinstance(re[1], {"dict"}) THEN json_dumps(re[1]) ELSE Ok(str(re[1])))

\* HandleBigQueryErrors.process(element): the messages it yields
HandleBigQueryErrors_process(element) == HandleShape(element, RowAndErrors(element))

\* the FormatDeadLetter step of run(): json.dumps(x).encode("utf-8")
FormatDeadLetter(x) == encode_utf8(json_dumps(x)[2])

(***************************************************************************)
(* The inputs the model enumerates.                                        *)
(***************************************************************************)
\* every symbol sequence of length at most n over alphabet
Strings(alphabet, n) == UNION {[1..k -> alphabet] : k \in 0..n}

ByteAlphabet == {"{", "}", "\"", "1", BadByte}
StrAlphabet == {"{", "}", "\"", "\\", "1"}

JsonAtoms ==
    {PyNone, PyBool(TRUE), PyInt(0), PyInt(42), PyStr(<<>>),
     PyStr(<<"a", "\"">>), PyStr(<<"\\">>)}
DictKeys == {S("a"), <<"k", "\"">>}

\* dict values nested at most depth deep
RECURSIVE DictValues(_)
DictValues(depth) ==
    IF depth = 0 THEN {PyDict(<<>>)}
    ELSE LET inner == DictValues(depth - 1) IN
         inner
         \cup {PyDict(<< <<k, v>> >>) :
                  k \in DictKeys,
                  v \in JsonAtoms \cup inner \cup {PyList(<<x, PyInt(1)>>) : x \in inner}}
         \cup {PyDict(<< <<S("a"), v>>, <<S("b"), PyInt(7)>> >>) : v \in inner}

Principal == PyStr(<<"user", ":", "alice@example.com">>)
Absent == <<"absent", 0>>

PrincipalValues ==
    {Absent, Principal, PyStr(<<>>), PyStr(S("a")), PyInt(7), PyInt(0), PyNone,
     PyBool(TRUE), PyList(<<Principal>>), PyDict(<< <<S("email"), Principal>> >>)}

JsonFieldValues ==
    {Absent, PyNone, PyInt(5), PyBool(FALSE), PyList(<<PyInt(1), PyInt(2)>>), PyList(<<>>)}
    \cup {PyStr(s) : s \in Strings(StrAlphabet, MaxLen)}
    \cup {PyStr(JsonText(d)) : d \in DictValues(1)}
    \cup DictValues(MaxDepth)

\* the items of a record, an Absent value meaning no item
RECURSIVE Present(_)
Present(items) ==
    IF Len(items) = 0 THEN <<>>
    ELSE (IF Head(items)[2] = Absent THEN <<>> ELSE <<Head(items)>>) \o Present(Tail(items))

SourceRecord(request, response, principal, label) ==
    PyDict(Present(<< <<S("request"), request>>,
                      <<S("response"), response>>,
                      <<S("userIamPrincipal"), principal>>,
                      <<S("userQuery"), PyStr(<<"What", " ", "is", " ", "PII", "?">>)>>,
                      <<S("serviceLabel"), label>>,
                      <<S("traceId"), PyInt(42)>> >>))

MockRequest == PyStr(JsonText(PyDict(<< <<S("header"), PyStr(S("mock_header"))>> >>)))
Label == PyStr(S("AGENTSPACE"))

ResponseValues ==
    {PyDict(<< <<S("status"), PyInt(200)>> >>), PyStr(<<"{">>), PyStr(<<"{", "}">>),
     PyList(<<PyInt(1)>>), PyInt(5), PyNone}

SourceRecords ==
    {SourceRecord(MockRequest, Absent, p, l) : p \in PrincipalValues, l \in {Absent, Label}}
    \cup {SourceRecord(r, Absent, Absent, Label) : r \in JsonFieldValues}
    \cup {SourceRecord(Absent, r, Principal, Label) : r \in ResponseValues}

\* messages as the source delivers them: bytes, a JSON record or not
RawMessages ==
    {PyBytes(JsonText(r)) : r \in SourceRecords}
    \cup {PyBytes(b) : b \in Strings(ByteAlphabet, MaxLen)}
    \cup {PyBytes(S("not-json")), PyBytes(S("null")),
          PyBytes(JsonText(PyList(<<PyStr(S("userIamPrincipal"))>>))),
          PyBytes(JsonText(PyStr(S("userIamPrincipal"))))}

\* elements handed to process already decoded
PreDecoded ==
    {SourceRecord(MockRequest, Absent, p, Label) : p \in PrincipalValues}
    \cup {PyStr(<<>>), PyStr(S("userIamPrincipal")), PyNone, PyInt(3), PyList(<<>>)}

Inputs == RawMessages \cup PreDecoded

\* the failure reports the sink may give for row
Errors == PyList(<<PyDict(<< <<S("reason"), PyStr(S("invalid"))>> >>)>>)
Quota == PyList(<<PyStr(S("quota exceeded"))>>)
TableId == PyStr(S("project:dataset.table"))

FailureReports(row) ==
    {PyTuple(<<TableId, row, Errors>>),
     PyTuple(<<row, Quota>>),
     PyList(<<row, Errors, PyNone, PyNone>>),
     row,
     PyStr(S("insert failed")),
     PyStr(<<>>),
     PyNamed(<< <<S("row"), row>>, <<S("errors"), Errors>> >>),
     PyNamed(<< <<S("row"), row>> >>),
     PyTuple(<<TableId, PyDict(<<>>), Errors>>),
     PyTuple(<<TableId, PyDict(SetItem(row[2], S("timestamp"), PyObject("datetime"))), Errors>>)}

(***************************************************************************)
(* The pipeline of run(), one record at a time on one worker.              *)
(***************************************************************************)
VARIABLES
    lifecycle,    \* of the MaskPIIFn instance: constructed, ready, torn_down
    dlp_client,   \* self.dlp_client: "None" or the client
    setups,       \* calls of setup so far
    pc,           \* where the current record is
    raw,          \* the current record as read from the source
    mask,         \* what MaskPIIFn.process did with it (empty before)
    formatted,    \* what FormatForBigQuery.process yielded
    written,      \* rows the sink accepted
    report,       \* the sink's failure report
    routed,       \* serialized ErrorRecords on their way to the dead-letter topic
    dlq           \* messages published to the dead-letter topic

vars == <<lifecycle, dlp_client, setups, pc, raw, mask, formatted, written,
          report, routed, dlq>>

Terminal == {"Done", "DeadLettered"}

Init ==
    /\ lifecycle = "constructed"
    /\ dlp_client = "None"
    /\ setups = 0
    /\ pc = "Idle"
    /\ raw = PyNone
    /\ mask = <<>>
    /\ formatted = <<>>
    /\ written = <<>>
    /\ report = <<>>
    /\ routed = <<>>
    /\ dlq = <<>>

\* MaskPIIFn.setup, which the runner calls once before the first element
Setup ==
    /\ lifecycle = "constructed"
    /\ dlp_client' = "DlpServiceClient"
    /\ setups' = setups + 1
    /\ lifecycle' = "ready"
    /\ UNCHANGED <<pc, raw, mask, formatted, written, report, routed, dlq>>

\* the runner tears the instance down; MaskPIIFn overrides no teardown
Teardown ==
    /\ lifecycle = "ready"
    /\ pc \in Terminal \cup {"Idle", "Raised"}
    /\ lifecycle' = "torn_down"
    /\ UNCHANGED <<dlp_client, setups, pc, raw, mask, formatted, written,
                   report, routed, dlq>>

\* ReadFromPubSub delivers the next message
ReadFromPubSub ==
    /\ lifecycle = "ready"
    /\ pc \in Terminal \cup {"Idle"}
    /\ \E e \in Inputs : raw' = e
    /\ pc' = "Ingested"
    /\ mask' = <<>>
    /\ formatted' = <<>>
    /\ written' = <<>>
    /\ report' = <<>>
    /\ routed' = <<>>
    /\ dlq' = <<>>
    /\ UNCHANGED <<lifecycle, dlp_client, setups>>

\* the MaskPII step: MaskPIIFn.process on the message
MaskPII ==
    /\ pc = "Ingested"
    /\ \E outcomes \in [1..Len(FIELDS_TO_MASK) -> DlpOutcomes] :
       \E r \in {MaskPIIFn_process(raw, dlp_client, outcomes)} :
          /\ mask' = <<r>>
          /\ pc' = IF Len(r.raised) > 0 THEN "Raised"
                   ELSE IF Len(r.masked) > 0 THEN "MaskingSuccess"
                   ELSE "MaskingFailure"
    /\ UNCHANGED <<lifecycle, dlp_client, setups, raw, formatted, written,
                   report, routed, dlq>>

\* the FormatForBigQuery step on the masked output
FormatStep ==
    /\ pc = "MaskingSuccess"
    /\ \E r \in {FormatForBigQuery_process(mask[1].masked[1])} :
       /\ formatted' = IF IsOk(r) THEN <<r[2]>> ELSE <<>>
       /\ pc' = IF IsOk(r) THEN "Formatted" ELSE "Raised"
    /\ UNCHANGED <<lifecycle, dlp_client, setups, raw, mask, written,
                   report, routed, dlq>>

\* WriteToBigQuery: the sink accepts the row
SinkAck ==
    /\ pc = "Formatted"
    /\ written' = Append(written, formatted[1])
    /\ pc' = "Done"
    /\ UNCHANGED <<lifecycle, dlp_client, setups, raw, mask, formatted,
                   report, routed, dlq>>

\* WriteToBigQuery: the sink gives the row up and reports the failure
SinkFail ==
    /\ pc = "Formatted"
    /\ \E r \in FailureReports(formatted[1]) : report' = <<r>>
    /\ pc' = "SinkFail"
    /\ UNCHANGED <<lifecycle, dlp_client, setups, raw, mask, formatted,
                   written, routed, dlq>>

\* the HandleBQErrors step: HandleBigQueryErrors.process on the report
HandleBQErrors ==
    /\ pc = "SinkFail"
    /\ routed' = HandleBigQueryErrors_process(report[1])
    /\ pc' = "ErrorRouted"
    /\ UNCHANGED <<lifecycle, dlp_client, setups, raw, mask, formatted,
                   written, report, dlq>>

\* the FormatDeadLetter step on the dead_letter output
FormatDeadLetterStep ==
    /\ pc = "MaskingFailure"
    /\ routed' = <<FormatDeadLetter(mask[1].dead_letter[1])>>
    /\ pc' = "ErrorRouted"
    /\ UNCHANGED <<lifecycle, dlp_client, setups, raw, mask, formatted,
                   written, report, dlq>>

\* WriteToPubSub publishes what was routed to the dead-letter topic
WriteToDeadLetter ==
    /\ pc = "ErrorRouted"
    /\ Len(routed) > 0
    /\ dlq' = dlq \o routed
    /\ pc' = "DeadLettered"
    /\ UNCHANGED <<lifecycle, dlp_client, setups, raw, mask, formatted,
                   written, report, routed>>

Next ==
    \/ Setup
    \/ Teardown
    \/ ReadFromPubSub
    \/ MaskPII
    \/ FormatStep
    \/ SinkAck
    \/ SinkFail
    \/ HandleBQErrors
    \/ FormatDeadLetterStep
    \/ WriteToDeadLetter

Spec == Init /\ [][Next]_vars

\* the runner runs every step that has an element waiting
FairSpec == Spec /\ WF_vars(Next)

(***************************************************************************)
(* What the properties below read off a state.                             *)
(***************************************************************************)
\* the record the Masking Stage decodes from the message read
DecodedInput ==
    IF isinstance(raw, {"bytes"}) THEN LoadDecoded(decode_utf8(raw[2])) ELSE Ok(raw)

\* the Masking Stage has processed the current message
MaskActed == Len(mask) = 1
\* the Format Stage has processed the current record
FormatActed == Len(formatted) = 1
\* the Write-Result Handler has processed a failure report
HandlerActed == Len(report) = 1 /\ pc \in {"ErrorRouted", "DeadLettered"}

\* the field of a dict value, as a Python value
Field(record, name) == GetItem(record[2], S(name))
\* the ErrorRecord a dead-letter message carries
ErrorRecordOf(message) == json_loads(decode_utf8(message[2])[2])[2]

MaskedRecord == mask[1].masked[1]
FormattedRecord == formatted[1]

(***************************************************************************)
(* C1.  The Masking Stage never raises past the record boundary: for every *)
(* raw input it emits exactly one output, a record on 'masked' or an       *)
(* ErrorRecord on 'dead_letter'.                                            *)
(***************************************************************************)
C1_NeverRaises ==
    MaskActed =>
        /\ Len(mask[1].raised) = 0
        /\ Len(mask[1].masked) + Len(mask[1].dead_letter) = 1

(***************************************************************************)
(* C2.  As claimed: in a record emitted with _masking_status = SUCCESS,    *)
(* every designated PII field that was present with a non-empty value on   *)
(* input holds the masking service's response for that value.              *)
(***************************************************************************)
HoldsResponse(input, output) ==
    \E i \in 1..Len(mask[1].calls) :
        /\ mask[1].calls[i][2] = input
        /\ IsOk(mask[1].calls[i][3])
        /\ output = mask[1].calls[i][3][2]

C2_EveryNonEmptyFieldMasked ==
    (MaskActed /\ Len(mask[1].masked) = 1) =>
        /\ Field(MaskedRecord, "_masking_status") = PyStr(S("SUCCESS"))
        /\ \A i \in 1..Len(FIELDS_TO_MASK) :
              (/\ HasKey(DecodedInput[2][2], FIELDS_TO_MASK[i])
               /\ Truthy(GetItem(DecodedInput[2][2], FIELDS_TO_MASK[i])))
              => HoldsResponse(GetItem(DecodedInput[2][2], FIELDS_TO_MASK[i]),
                               GetItem(MaskedRecord[2], FIELDS_TO_MASK[i]))

(***************************************************************************)
(* C2, amended.  In a record emitted with _masking_status = SUCCESS, every *)
(* designated PII field that was present with a non-empty string value on  *)
(* input holds the masking service's response for that value; a value that *)
(* is not a string is passed through as it was.                            *)
(***************************************************************************)
C2_EveryStringFieldMasked ==
    (MaskActed /\ Len(mask[1].masked) = 1) =>
        /\ Field(MaskedRecord, "_masking_status") = PyStr(S("SUCCESS"))
        /\ \A i \in 1..Len(FIELDS_TO_MASK) :
              (/\ HasKey(DecodedInput[2][2], FIELDS_TO_MASK[i])
               /\ Truthy(GetItem(DecodedInput[2][2], FIELDS_TO_MASK[i])))
              => IF isinstance(GetItem(DecodedInput[2][2], FIELDS_TO_MASK[i]), {"str"})
                 THEN HoldsResponse(GetItem(DecodedInput[2][2], FIELDS_TO_MASK[i]),
                                    GetItem(MaskedRecord[2], FIELDS_TO_MASK[i]))
                 ELSE GetItem(MaskedRecord[2], FIELDS_TO_MASK[i])
                        = GetItem(DecodedInput[2][2], FIELDS_TO_MASK[i])

\* a record whose principal the service masked entirely was emitted
C2_Witness ==
    /\ MaskActed
    /\ Len(mask[1].masked) = 1
    /\ HasKey(DecodedInput[2][2], S("userIamPrincipal"))
    /\ Field(DecodedInput[2], "userIamPrincipal") = Principal
    /\ Field(MaskedRecord, "userIamPrincipal") = PyStr(<<"*", "*", "*">>)

(***************************************************************************)
(* C3.  Every ErrorRecord sent to the dead-letter channel, by the Masking  *)
(* Stage or by the Write-Result Handler, has a non-empty original_data.    *)
(***************************************************************************)
C3_OriginalDataNonEmpty ==
    /\ MaskActed =>
          \A i \in 1..Len(mask[1].dead_letter) :
              Field(mask[1].dead_letter[i], "original_data") # PyStr(<<>>)
    /\ \A i \in 1..Len(routed) :
          Field(ErrorRecordOf(routed[i]), "original_data") # PyStr(<<>>)

PipelineTransitions ==
    {<<"Ingested", "MaskingSuccess">>, <<"Ingested", "MaskingFailure">>,
     <<"MaskingSuccess", "Formatted">>,
     <<"Formatted", "Done">>, <<"Formatted", "SinkFail">>,
     <<"SinkFail", "ErrorRouted">>, <<"MaskingFailure", "ErrorRouted">>,
     <<"ErrorRouted", "DeadLettered">>,
     <<"Idle", "Ingested">>, <<"Done", "Ingested">>, <<"DeadLettered", "Ingested">>}

C5_StateMachine ==
    /\ [][pc' # pc => <<pc, pc'>> \in PipelineTransitions]_vars
    /\ [](pc = "Ingested" => <>(pc \in Terminal))

(***************************************************************************)
(* C6.  After the Format Stage every field name of the schema is present   *)
(* on the output record, null when it was absent on input; every field of  *)
(* the input is still present under its name; and the stage emitted        *)
(* exactly one record.                                                     *)
(***************************************************************************)
C6_SchemaFieldsPresent ==
    (MaskActed /\ Len(mask[1].masked) = 1 /\ pc # "MaskingSuccess") =>
        /\ FormatActed
        /\ \A i \in 1..Len(table_schema) :
              /\ HasKey(FormattedRecord[2], table_schema[i])
              /\ ~HasKey(MaskedRecord[2], table_schema[i])
                    => GetItem(FormattedRecord[2], table_schema[i]) = PyNone
        /\ \A k \in Keys(MaskedRecord[2]) : HasKey(FormattedRecord[2], k)

\* Scenario D: a record without serviceLabel was formatted
C6_Witness ==
    /\ FormatActed
    /\ ~HasKey(MaskedRecord[2], S("serviceLabel"))
    /\ HasKey(MaskedRecord[2], S("traceId"))
    /\ Field(FormattedRecord, "serviceLabel") = PyNone
    /\ Field(FormattedRecord, "traceId") = PyInt(42)

(***************************************************************************)
(* C7.  Canonicalization of a JSON-designated field by the Format Stage:   *)
(* a dict becomes a string that parses back to the dict; a string that     *)
(* parses as JSON is kept; a string that does not becomes a string that    *)
(* parses as a JSON object holding the original string under raw_value.    *)
(***************************************************************************)
C7_Canonicalization ==
    FormatActed =>
        \A i \in 1..Len(JSON_FIELDS) :
            HasKey(MaskedRecord[2], JSON_FIELDS[i]) =>
                CASE isinstance(GetItem(MaskedRecord[2], JSON_FIELDS[i]), {"dict"}) ->
                        /\ isinstance(GetItem(FormattedRecord[2], JSON_FIELDS[i]), {"str"})
                        /\ json_loads(GetItem(FormattedRecord[2], JSON_FIELDS[i])[2])
                              = Ok(GetItem(MaskedRecord[2], JSON_FIELDS[i]))
                  [] isinstance(GetItem(MaskedRecord[2], JSON_FIELDS[i]), {"str"}) ->
                        IF IsOk(json_loads(GetItem(MaskedRecord[2], JSON_FIELDS[i])[2]))
                        THEN GetItem(FormattedRecord[2], JSON_FIELDS[i])
                                = GetItem(MaskedRecord[2], JSON_FIELDS[i])
                        ELSE /\ isinstance(GetItem(FormattedRecord[2], JSON_FIELDS[i]), {"str"})
                             /\ json_loads(GetItem(FormattedRecord[2], JSON_FIELDS[i])[2])
                                   = Ok(PyDict(<< <<S("raw_value"),
                                                    GetItem(MaskedRecord[2], JSON_FIELDS[i])>> >>))
                  [] OTHER -> TRUE

\* a request that is no JSON and holds a quote was wrapped
C7_Witness ==
    /\ FormatActed
    /\ HasKey(MaskedRecord[2], S("request"))
    /\ Field(MaskedRecord, "request") = PyStr(<<"\"", "{">>)
    /\ Field(FormattedRecord, "request")
          = PyStr(<<"{", "\"", "raw_value", "\"", ":", " ", "\"", "\\", "\"", "{", "\"", "}">>)

(***************************************************************************)
(* C8.  When decoding the raw message fails or a masking-service call      *)
(* fails, the Masking Stage emits nothing on 'masked' and one ErrorRecord  *)
(* on 'dead_letter' with error_type = MASKING_ERROR, original_data the raw *)
(* input text and error_message the underlying error's message.            *)
(***************************************************************************)
DecodeFailed == isinstance(raw, {"bytes"}) /\ ~IsOk(DecodedInput)
CallFailed == \E i \in 1..Len(mask[1].calls) : ~IsOk(mask[1].calls[i][3])
RawText == IF isinstance(raw, {"bytes"}) THEN raw[2] ELSE str(raw)

C8_FailureIsDeadLettered ==
    (MaskActed /\ (DecodeFailed \/ CallFailed)) =>
        /\ Len(mask[1].masked) = 0
        /\ Len(mask[1].dead_letter) = 1
        /\ Field(mask[1].dead_letter[1], "error_type") = PyStr(S("MASKING_ERROR"))
        /\ Field(mask[1].dead_letter[1], "original_data") = PyStr(RawText)
        /\ Field(mask[1].dead_letter[1], "error_message") = PyStr(mask[1].caught[1])

(***************************************************************************)
(* C9.  The masking-service client handle is acquired exactly once, before *)
(* the first record is processed; no call is made with an unacquired       *)
(* handle; and the handle is released at worker shutdown.                  *)
(***************************************************************************)
C9_HandleLifetime ==
    /\ pc # "Idle" => setups = 1
    /\ MaskActed => \A i \in 1..Len(mask[1].calls) : mask[1].calls[i][1] # "None"
    /\ lifecycle = "torn_down" => dlp_client = "None"

(***************************************************************************)
(* C10.  After the Format Stage every JSON-designated field of the output  *)
(* record is null or a string that parses as JSON, whatever the input      *)
(* value was.                                                              *)
(***************************************************************************)
C10_JsonFieldsValid ==
    FormatActed =>
        \A i \in 1..Len(JSON_FIELDS) :
            \/ GetItem(FormattedRecord[2], JSON_FIELDS[i]) = PyNone
            \/ /\ isinstance(GetItem(FormattedRecord[2], JSON_FIELDS[i]), {"str"})
               /\ IsOk(json_loads(GetItem(FormattedRecord[2], JSON_FIELDS[i])[2]))

=============================================================================
